---------------------------- MODULE Spec2Model ----------------------------
(***************************************************************************)
(* Model of the notes editor (TiptapEditor.tsx, lib/notes.ts) and of its   *)
(* click-to-edit markdown overlay.                                         *)
(*                                                                         *)
(* Strings are sequences of one-character strings, so that the regular     *)
(* expression rewrites of the source can be computed character by          *)
(* character.  The alphabet is lower case, so the "i" flag of the tag      *)
(* rewrites is not exercised.                                              *)
(***************************************************************************)
EXTENDS Naturals, Sequences, FiniteSets

(***************************************************************************)
(* String helpers (JavaScript String.prototype semantics).                 *)
(***************************************************************************)
MinOf(S) == CHOOSE x \in S : \A y \in S : x <= y

\* the backtick character (a string literal of the module cannot hold it)
BT == "backtick"

IsSpace(c) == c \in {" ", "\n", "\t"}

StartsWithAt(s, i, p) ==
  /\ i >= 1
  /\ i + Len(p) - 1 <= Len(s)
  /\ SubSeq(s, i, i + Len(p) - 1) = p

\* index of the first occurrence of p in s at or after i, 0 when there is none
IndexFrom(s, i, p) ==
  LET js == {j \in i..Len(s) : StartsWithAt(s, j, p)}
  IN  IF js = {} THEN 0 ELSE MinOf(js)

\* the first position at or after i where p occurs in s, the position after
\* the end of s when there is none: what lies before it is copied unchanged
\* by a replace of a pattern that starts with p
SkipTo(s, i, p) ==
  LET j == IndexFrom(s, i, p)
  IN  IF j = 0 THEN Len(s) + 1 ELSE j

\* "." of a JavaScript regular expression does not match a line terminator
NoLineBreak(s, i, j) == \A k \in i..j : s[k] # "\n"

\* s.trim()
Trim(s) ==
  LET keep == {k \in 1..Len(s) : ~IsSpace(s[k])}
  IN  IF keep = {} THEN <<>>
      ELSE SubSeq(s, MinOf(keep), CHOOSE k \in keep : \A m \in keep : m <= k)

RECURSIVE ReplaceAllFrom(_, _, _, _)
ReplaceAllFrom(s, i, from, to) ==
  IF i > Len(s) THEN <<>>
  ELSE IF StartsWithAt(s, i, from)
       THEN to \o ReplaceAllFrom(s, i + Len(from), from, to)
       ELSE LET n == SkipTo(s, i + 1, from)
            IN  SubSeq(s, i, n - 1) \o ReplaceAllFrom(s, n, from, to)

\* s.replace(/from/g, to) for a literal pattern
ReplaceAll(s, from, to) == ReplaceAllFrom(s, 1, from, to)

\* length of the match of /<name[^>]*>/ at position i of s, 0 when it fails
OpenTagLen(s, i, name) ==
  IF ~StartsWithAt(s, i, <<"<">> \o name) THEN 0
  ELSE LET k == IndexFrom(s, i + 1 + Len(name), <<">">>)
       IN  IF k = 0 THEN 0 ELSE k - i + 1

RECURSIVE ReplaceTagFrom(_, _, _, _, _)
ReplaceTagFrom(s, i, name, pre, suf) ==
  IF i > Len(s) THEN <<>>
  ELSE LET ol    == OpenTagLen(s, i, name)
           close == <<"<", "/">> \o name \o <<">">>
           j     == IF ol = 0 THEN 0 ELSE IndexFrom(s, i + ol, close)
       IN  IF ol > 0 /\ j > 0 /\ NoLineBreak(s, i + ol, j - 1)
           THEN pre \o SubSeq(s, i + ol, j - 1) \o suf
                    \o ReplaceTagFrom(s, j + Len(close), name, pre, suf)
           ELSE LET n == SkipTo(s, i + 1, <<"<">> \o name)
                IN  SubSeq(s, i, n - 1) \o ReplaceTagFrom(s, n, name, pre, suf)

\* s.replace(/<name[^>]*>(.*?)<\/name>/gi, pre + '$1' + suf)
ReplaceTag(s, name, pre, suf) == ReplaceTagFrom(s, 1, name, pre, suf)

RECURSIVE RemoveTagsFrom(_, _)
RemoveTagsFrom(s, i) ==
  IF i > Len(s) THEN <<>>
  ELSE LET k == IF s[i] = "<" THEN IndexFrom(s, i + 1, <<">">>) ELSE 0
       IN  IF k >= i + 2
           THEN RemoveTagsFrom(s, k + 1)
           ELSE LET n == SkipTo(s, i + 1, <<"<">>)
                IN  SubSeq(s, i, n - 1) \o RemoveTagsFrom(s, n)

\* s.replace(/<[^>]+>/g, '')
RemoveTags(s) == RemoveTagsFrom(s, 1)

RECURSIVE UnwrapFrom(_, _, _)
UnwrapFrom(s, i, d) ==
  IF i > Len(s) THEN <<>>
  ELSE LET j == IF StartsWithAt(s, i, d)
                THEN IndexFrom(s, i + Len(d), d) ELSE 0
       IN  IF j > 0 /\ NoLineBreak(s, i + Len(d), j - 1)
           THEN SubSeq(s, i + Len(d), j - 1) \o UnwrapFrom(s, j + Len(d), d)
           ELSE LET n == SkipTo(s, i + 1, d)
                IN  SubSeq(s, i, n - 1) \o UnwrapFrom(s, n, d)

\* s.replace(/d(.*?)d/g, '$1') for a literal delimiter d
Unwrap(s, d) == UnwrapFrom(s, 1, d)

\* s.replace(/^c{1,max}\s*/, '')
StripLeading(s, c, max) ==
  LET run == {n \in 1..max : n <= Len(s) /\ \A k \in 1..n : s[k] = c}
  IN  IF run = {} THEN s
      ELSE LET n    == CHOOSE m \in run : \A r \in run : r <= m
               rest == {k \in (n + 1)..Len(s) : ~IsSpace(s[k])}
           IN  IF rest = {} THEN <<>> ELSE SubSeq(s, MinOf(rest), Len(s))

(***************************************************************************)
(* The markdown syntax of the overlay.                                     *)
(***************************************************************************)
\* htmlToMarkdownPreview: the rewrites in source order
htmlToMarkdownPreview(html) ==
  LET m1  == ReplaceTag(html, <<"h", "1">>, <<"#", " ">>, <<>>)
      m2  == ReplaceTag(m1, <<"h", "2">>, <<"#", "#", " ">>, <<>>)
      m3  == ReplaceTag(m2, <<"h", "3">>, <<"#", "#", "#", " ">>, <<>>)
      m4  == ReplaceTag(m3, <<"s", "t", "r", "o", "n", "g">>, <<"*", "*">>, <<"*", "*">>)
      m5  == ReplaceTag(m4, <<"b">>, <<"*", "*">>, <<"*", "*">>)
      m6  == ReplaceTag(m5, <<"e", "m">>, <<"*">>, <<"*">>)
      m7  == ReplaceTag(m6, <<"i">>, <<"*">>, <<"*">>)
      m8  == ReplaceTag(m7, <<"c", "o", "d", "e">>, <<BT>>, <<BT>>)
      m9  == ReplaceTag(m8, <<"l", "i">>, <<"-", " ">>, <<>>)
      m10 == RemoveTags(m9)
      m11 == ReplaceAll(m10, <<"&", "n", "b", "s", "p", ";">>, <<" ">>)
      m12 == ReplaceAll(m11, <<"&", "a", "m", "p", ";">>, <<"&">>)
      m13 == ReplaceAll(m12, <<"&", "l", "t", ";">>, <<"<">>)
      m14 == ReplaceAll(m13, <<"&", "g", "t", ";">>, <<">">>)
  IN  Trim(m14)

\* the commit-time rewrite of applyEdit: markdown back to plain text
StripMarkdown(v) ==
  LET t1 == StripLeading(v, "#", 3)
      t2 == Unwrap(t1, <<"*", "*">>)
      t3 == Unwrap(t2, <<"*">>)
      t4 == Unwrap(t3, <<BT>>)
  IN  StripLeading(t4, "-", 1)

\* the syntax table: the delimiters htmlToMarkdownPreview puts around the
\* content of an element of each tag
SyntaxPrefix(tag) ==
  CASE tag = "h1" -> <<"#", " ">>
    [] tag = "h2" -> <<"#", "#", " ">>
    [] tag = "h3" -> <<"#", "#", "#", " ">>
    [] tag \in {"strong", "b"} -> <<"*", "*">>
    [] tag \in {"em", "i"} -> <<"*">>
    [] tag = "code" -> <<BT>>
    [] tag = "li" -> <<"-", " ">>
    [] OTHER -> <<>>

SyntaxSuffix(tag) ==
  CASE tag \in {"strong", "b"} -> <<"*", "*">>
    [] tag \in {"em", "i"} -> <<"*">>
    [] tag = "code" -> <<BT>>
    [] OTHER -> <<>>

(***************************************************************************)
(* The rendered document: the DOM tree under the editor, and the HTML the  *)
(* rich-text widget serializes it to and parses it from.  A node is a text *)
(* node (tag "#text") or an element with children.                         *)
(***************************************************************************)
TextNode(t) == [tag |-> "#text", text |-> t, kids |-> <<>>]

Elem(tag, kids) == [tag |-> tag, text |-> <<>>, kids |-> kids]

\* the characters of a tag name
TagChars(tag) ==
  CASE tag = "h1" -> <<"h", "1">>
    [] tag = "h2" -> <<"h", "2">>
    [] tag = "h3" -> <<"h", "3">>
    [] tag = "strong" -> <<"s", "t", "r", "o", "n", "g">>
    [] tag = "b" -> <<"b">>
    [] tag = "em" -> <<"e", "m">>
    [] tag = "i" -> <<"i">>
    [] tag = "code" -> <<"c", "o", "d", "e">>
    [] tag = "li" -> <<"l", "i">>
    [] tag = "ul" -> <<"u", "l">>
    [] tag = "s" -> <<"s">>
    [] tag = "p" -> <<"p">>

TagOfChars(cs) ==
  CHOOSE tag \in {"h1", "h2", "h3", "strong", "b", "em", "i", "code", "li",
                  "ul", "s", "p"} : TagChars(tag) = cs

RECURSIVE Concat(_)
Concat(ss) == IF ss = <<>> THEN <<>> ELSE Head(ss) \o Concat(Tail(ss))

\* character data as the HTML serializer writes it
EscapeText(t) ==
  Concat([k \in 1..Len(t) |->
            CASE t[k] = "&" -> <<"&", "a", "m", "p", ";">>
              [] t[k] = "<" -> <<"&", "l", "t", ";">>
              [] t[k] = ">" -> <<"&", "g", "t", ";">>
              [] OTHER -> <<t[k]>>])

RECURSIVE UnescapeFrom(_, _)
UnescapeFrom(s, i) ==
  IF i > Len(s) THEN <<>>
  ELSE IF StartsWithAt(s, i, <<"&", "a", "m", "p", ";">>)
       THEN <<"&">> \o UnescapeFrom(s, i + 5)
  ELSE IF StartsWithAt(s, i, <<"&", "l", "t", ";">>)
       THEN <<"<">> \o UnescapeFrom(s, i + 4)
  ELSE IF StartsWithAt(s, i, <<"&", "g", "t", ";">>)
       THEN <<">">> \o UnescapeFrom(s, i + 4)
  ELSE <<s[i]>> \o UnescapeFrom(s, i + 1)

\* character data as the HTML parser reads it
UnescapeText(s) == UnescapeFrom(s, 1)

\* element.outerHTML
RECURSIVE OuterHTML(_)
OuterHTML(n) ==
  IF n.tag = "#text" THEN EscapeText(n.text)
  ELSE IF n.tag = "img"
  THEN <<"<", "i", "m", "g", " ", "s", "r", "c", "=", "\"">> \o n.text \o <<"\"", ">">>
  ELSE <<"<">> \o TagChars(n.tag) \o <<">">>
       \o Concat([k \in 1..Len(n.kids) |-> OuterHTML(n.kids[k])])
       \o <<"<", "/">> \o TagChars(n.tag) \o <<">">>

\* node.textContent
RECURSIVE TextContent(_)
TextContent(n) ==
  IF n.tag = "#text" THEN n.text
  ELSE Concat([k \in 1..Len(n.kids) |-> TextContent(n.kids[k])])

\* editor.getHTML(): the serialization of the whole document.  The editor's
\* document is taken to be the DOM tree it renders, so a text written to an
\* element is part of the next serialization.
GetHTML(nodes) == Concat([k \in 1..Len(nodes) |-> OuterHTML(nodes[k])])

\* the paths (child indices from the root) of the elements of a forest
RECURSIVE ElementPaths(_)
ElementPaths(nodes) ==
  UNION {IF nodes[k].tag = "#text" THEN {}
         ELSE {<<k>>} \cup {<<k>> \o q : q \in ElementPaths(nodes[k].kids)}
         : k \in 1..Len(nodes)}

RECURSIVE NodeAt(_, _)
NodeAt(nodes, path) ==
  IF Len(path) = 1 THEN nodes[path[1]]
  ELSE NodeAt(nodes[path[1]].kids, Tail(path))

\* node.textContent = t for the node at path: its children are replaced by
\* one text node, or by nothing when t is empty
RECURSIVE SetTextContent(_, _, _)
SetTextContent(nodes, path, t) ==
  IF Len(path) = 1
  THEN [nodes EXCEPT ![path[1]].kids =
          IF t = <<>> THEN <<>> ELSE <<TextNode(t)>>]
  ELSE [nodes EXCEPT ![path[1]].kids = SetTextContent(@, Tail(path), t)]

\* the parser behind editor.commands.setContent, for the markup GetHTML
\* writes: the nodes that start at position i of s, up to a closing tag or
\* the end, and the position after them
RECURSIVE ParseNodes(_, _)
ParseNodes(s, i) ==
  IF i > Len(s) \/ StartsWithAt(s, i, <<"<", "/">>)
  THEN [nodes |-> <<>>, next |-> i]
  ELSE IF s[i] = "<"
  THEN LET gt    == IndexFrom(s, i, <<">">>)
           name  == SubSeq(s, i + 1, gt - 1)
           inner == ParseNodes(s, gt + 1)
           rest  == ParseNodes(s, inner.next + Len(name) + 3)
       IN  [nodes |-> <<Elem(TagOfChars(name), inner.nodes)>> \o rest.nodes,
            next  |-> rest.next]
  ELSE LET lt   == IndexFrom(s, i, <<"<">>)
           stop == IF lt = 0 THEN Len(s) + 1 ELSE lt
           rest == ParseNodes(s, stop)
       IN  [nodes |-> <<TextNode(UnescapeText(SubSeq(s, i, stop - 1)))>>
                        \o rest.nodes,
            next  |-> rest.next]

\* the document the widget shows for content: an empty document is one
\* empty paragraph
ParseContent(content) ==
  IF content = <<>> THEN <<Elem("p", <<>>)>> ELSE ParseNodes(content, 1).nodes

(***************************************************************************)
(* Bounds of the exploration.                                              *)
(***************************************************************************)
\* overlay sessions (Idle -> Editing transitions) in one run
MaxOpens == 2

(***************************************************************************)
(* Notes (lib/notes.ts).                                                   *)
(***************************************************************************)
\* the values generateId can return
IdPool == {"n1", "n2", "n3"}

\* activeNoteId = null
NoId == "null"

Note(id, content, created, updated) ==
  [id |-> id, content |-> content, createdAt |-> created, updatedAt |-> updated]

\* createNote() giving the new note a content
createNoteDraft(id, t) == Note(id, <<"x">>, t, t)

\* createNote() with the id generateId returned
createNote(id, t) == Note(id, <<>>, t, t)

(***************************************************************************)
(* Collections a previous session can have left in local storage: none,    *)
(* or two notes whose contents are serializations of documents.            *)
(***************************************************************************)
DocA ==
  << Elem("h2", <<TextNode(<<"S", "e", "c", "t", "i", "o", "n">>)>>),
     Elem("p", <<TextNode(<<"a", " ">>),
                 Elem("strong", <<TextNode(<<"b">>)>>)>>) >>

DocB ==
  << Elem("ul", <<Elem("li", <<Elem("p", <<TextNode(<<"x", "*", "y", "*">>)>>)>>)>>),
     Elem("h1", <<>>) >>

DocC == << Elem("p", <<Elem("s", <<TextNode(<<"q">>)>>)>>) >>

StoredCollections ==
  { <<>>,
    << Note("n1", GetHTML(DocA), 0, 0), Note("n2", GetHTML(DocC), 0, 0) >>,
    << Note("n1", GetHTML(DocB), 0, 0), Note("n2", GetHTML(DocC), 0, 0) >> }

\* what the user can leave in the overlay input
TypedValues ==
  { <<"#", "#", " ", "N", "e", "w", " ", "T", "i", "t", "l", "e">>,
    <<"*", "c", "*", "d">>,
    <<>> }

(***************************************************************************)
(* State.                                                                  *)
(***************************************************************************)
VARIABLES
  storage,          \* the collection under STORAGE_KEY in local storage
  saves,            \* calls of saveNotes made by the handler that ran last
  failures,         \* calls of saveNotes by that handler whose write failed
                    \* (console.error('Failed to save notes:'))
  notes,            \* useState<Note[]>
  activeNoteId,     \* useState<string | null>
  isLoading,        \* useState(true)
  editor,           \* whether useEditor has returned an instance
  doc,              \* the DOM tree rendered by the editor
  hidden,           \* paths of the elements of doc whose style hides them
  editingElement,   \* useState<{target, tagName, markdown, originalText} | null>
  editValue,        \* useState('')
  targetConnected,  \* editingElement.target.isConnected
  now,              \* Date.now(), read by updateNote for updatedAt; no
                    \* handler of the overlay branches on it, and the clock
                    \* stands still here
  opens,            \* overlay sessions so far
  last,             \* the event handled last, with what it found
  timer,            \* "let timer" of debounce: the handle set last, 0 before
  timers,           \* the timeouts that are set and have neither fired nor
                    \* been cleared
  edited,           \* per note id, the latest change made in the editor
  batch,            \* the image files being processed, NoBatch when none
  logged,           \* calls of console.error('Failed to process image:')
  exported,         \* the HTML given to htmlToMarkdown and what it returned
  panel             \* the notes panel: "closed" (showPanel false), or shown
                    \* as the "list" (searchQuery blank) or as a "search"

\* the state outside the overlay
others == <<timer, timers, edited, batch, logged, exported, panel>>

vars == <<storage, saves, failures, notes, activeNoteId, isLoading, editor, doc, hidden,
          editingElement, editValue, targetConnected, now, opens, last, others>>

\* no change recorded for a note
NoEdit == [made |-> FALSE, content |-> <<>>]

NoBatch == [kind |-> "none", files |-> <<>>, left |-> {}, queue |-> {}]

NoExport == [src |-> [kind |-> "none"], html |-> <<>>, md |-> <<>>, done |-> FALSE]

\* the state outside the overlay when the page is opened
InitOthers ==
  /\ timer = 0
  /\ timers = {}
  /\ edited = [id \in IdPool |-> NoEdit]
  /\ batch = NoBatch
  /\ logged = 0
  /\ exported = NoExport
  /\ panel = "closed"

\* editingElement = null
Null == [target |-> <<>>, tagName |-> "", markdown |-> <<>>, originalText |-> <<>>]

Event(type, path) ==
  [type |-> type, path |-> path,
   editing |-> editingElement # Null,
   dirty |-> editingElement # Null /\ editValue # editingElement.markdown,
   connected |-> targetConnected]

Init ==
  /\ storage \in StoredCollections
  /\ saves = 0
  /\ failures = 0
  /\ notes = <<>>
  /\ activeNoteId = NoId
  /\ isLoading = TRUE
  /\ editor = FALSE
  /\ doc = <<>>
  /\ hidden = {}
  /\ editingElement = Null
  /\ editValue = <<>>
  /\ targetConnected = FALSE
  /\ now = 0
  /\ opens = 0
  /\ last = [type |-> "init", path |-> <<>>, editing |-> FALSE,
             dirty |-> FALSE, connected |-> FALSE]
  /\ InitOthers

\* notes.find(n => n.id === activeNoteId), as the content the editor shows
ContentOf(ns, id) ==
  LET hit == {k \in 1..Len(ns) : ns[k].id = id}
  IN  IF hit = {} THEN <<>> ELSE ns[MinOf(hit)].content

\* the place the note at k takes under sort((a, b) => b.updatedAt -
\* a.updatedAt): after every later note and, the sort being stable, after
\* the notes of the same time that stood before it
RankByUpdated(ns, k) ==
  Cardinality({j \in 1..Len(ns) :
                 \/ ns[j].updatedAt > ns[k].updatedAt
                 \/ ns[j].updatedAt = ns[k].updatedAt /\ j < k}) + 1

\* notes.sort((a, b) => b.updatedAt - a.updatedAt)
SortByUpdated(ns) ==
  [r \in 1..Len(ns) |-> ns[CHOOSE k \in 1..Len(ns) : RankByUpdated(ns, k) = r]]

\* the collection after the panel has rendered with it: filteredNotes
\* sorts the array of the editor's state itself when the search is blank,
\* and a filtered copy otherwise
filteredNotes(ns, p) == IF p = "list" THEN SortByUpdated(ns) ELSE ns

\* saveNotes(ns): a failed write (quota, storage disabled) is caught and
\* leaves the stored collection as it was
saveNotes(ns, ok) ==
  /\ storage' = IF ok THEN ns ELSE storage
  /\ saves' = 1
  /\ failures' = IF ok THEN 0 ELSE 1

\* an update that adds the note when the collection has none of that id
UpdatedNotesOrAdded(ns, id, content, t) ==
  IF \E k \in 1..Len(ns) : ns[k].id = id
  THEN [k \in 1..Len(ns) |->
          IF ns[k].id = id THEN [ns[k] EXCEPT !.content = content, !.updatedAt = t]
          ELSE ns[k]]
  ELSE Append(ns, [id |-> id, content |-> content, createdAt |-> t, updatedAt |-> t])

\* the prev.map(...) of updateNote
UpdatedNotes(ns, id, content, t) ==
  [k \in 1..Len(ns) |->
     IF ns[k].id = id THEN [ns[k] EXCEPT !.content = content, !.updatedAt = t]
     ELSE ns[k]]

\* updateNote without its saveNotes call
updateNoteUnsaved(id, content, ok) ==
  /\ notes' = filteredNotes(UpdatedNotes(notes, id, content, now), panel)
  /\ saves' = 0 /\ failures' = 0
  /\ UNCHANGED storage

\* updateNote(id, content); the panel, when shown, renders with the new
\* collection
updateNote(id, content, ok) ==
  LET updated == UpdatedNotes(notes, id, content, now)
  IN  /\ saveNotes(updated, ok)
      /\ notes' = filteredNotes(updated, panel)

\* the mount effect: loadNotes, and a first note when there is none; the
\* editor instance is created and shows the active note
LoadNotesOnMount ==
  /\ isLoading
  /\ \E readable \in BOOLEAN, id \in IdPool, ok \in BOOLEAN :
       LET loaded == IF readable THEN storage ELSE <<>>
       IN  /\ IF loaded = <<>>
              THEN /\ notes' = <<createNote(id, now)>>
                   /\ activeNoteId' = id
                   /\ saveNotes(notes', ok)
              ELSE /\ notes' = loaded
                   /\ activeNoteId' = loaded[1].id
                   /\ UNCHANGED storage
                   /\ saves' = 0 /\ failures' = 0
           /\ last' = Event(IF readable THEN "load" ELSE "load-unreadable", <<>>)
  /\ isLoading' = FALSE
  /\ editor' = TRUE
  /\ doc' = ParseContent(ContentOf(notes', activeNoteId'))
  /\ UNCHANGED <<hidden, editingElement, editValue, targetConnected, now, opens,
                 others>>

\* a note of the panel is clicked: onSelectNote = setActiveNoteId, then
\* onClose; the editor is created anew for the note (useEditor depends on
\* activeNoteId) and is given the note's content, so the nodes of the
\* previous document leave the page
SelectNote(id) ==
  /\ ~isLoading
  /\ panel # "closed"
  /\ panel' = "closed"
  /\ id # activeNoteId
  /\ \E k \in 1..Len(notes) : notes[k].id = id
  /\ activeNoteId' = id
  /\ doc' = ParseContent(ContentOf(notes, id))
  /\ targetConnected' = FALSE
  /\ last' = Event("select", <<>>)
  /\ saves' = 0 /\ failures' = 0
  /\ UNCHANGED <<storage, notes, isLoading, editor, hidden, editingElement,
                 editValue, now, opens, timer, timers, edited, batch, logged,
                 exported>>

\* the notes button, clicked or, while the overlay is shown, reached and
\* pressed on the keyboard: setShowPanel(true); the panel mounts with a
\* blank search and renders with the collection
openPanel ==
  /\ ~isLoading
  /\ panel = "closed"
  /\ panel' = "list"
  /\ notes' = filteredNotes(notes, panel')
  /\ last' = Event("panel", <<>>)
  /\ saves' = 0 /\ failures' = 0
  /\ UNCHANGED <<storage, activeNoteId, isLoading, editor, doc, hidden,
                 editingElement, editValue, targetConnected, now, opens,
                 timer, timers, edited, batch, logged, exported>>

\* onClose of the panel, by its close button: setShowPanel(false)
closePanel ==
  /\ panel # "closed"
  /\ panel' = "closed"
  /\ last' = Event("close", <<>>)
  /\ saves' = 0 /\ failures' = 0
  /\ UNCHANGED <<storage, notes, activeNoteId, isLoading, editor, doc, hidden,
                 editingElement, editValue, targetConnected, now, opens,
                 timer, timers, edited, batch, logged, exported>>

\* onChange of the search input: setSearchQuery(e.target.value), blank
\* or not; filteredNotes is computed again
setSearchQuery(blank) ==
  /\ panel # "closed"
  /\ panel' = IF blank THEN "list" ELSE "search"
  /\ panel' # panel
  /\ notes' = filteredNotes(notes, panel')
  /\ last' = Event("search", <<>>)
  /\ saves' = 0 /\ failures' = 0
  /\ UNCHANGED <<storage, activeNoteId, isLoading, editor, doc, hidden,
                 editingElement, editValue, targetConnected, now, opens,
                 timer, timers, edited, batch, logged, exported>>

(***************************************************************************)
(* The markdown overlay.                                                   *)
(***************************************************************************)
\* the tags whose click opens the overlay
Qualifying == {"h1", "h2", "h3", "strong", "em", "code", "li", "b", "i", "p"}

\* handleEditorClick without its first line
ClickIgnoredNever == FALSE

\* "if (editingElement) return" of handleEditorClick
ClickIgnored == editingElement # Null

\* the overlay input given the element's text alone
PreviewOfText(node) == Trim(TextContent(node))

\* the value the overlay input is given for the clicked element
PreviewOf(node) == htmlToMarkdownPreview(OuterHTML(node))

\* handleEditorClick hiding the element it opens the overlay for
HiddenOnOpenHides(path) == hidden \cup {path}

\* the styles handleEditorClick leaves on the elements: it sets none
HiddenOnOpen(path) == hidden

\* handleEditorClick: a click on the element at path
handleEditorClick(path) ==
  /\ ~isLoading /\ editor
  /\ panel = "closed"
  /\ path \in ElementPaths(doc)
  /\ LET node     == NodeAt(doc, path)
         markdown == PreviewOf(node)
     IN  IF ~ClickIgnored /\ node.tag \in Qualifying /\ markdown # <<>>
         THEN /\ opens < MaxOpens
              /\ editingElement' = [target |-> path, tagName |-> node.tag,
                                    markdown |-> markdown,
                                    originalText |-> TextContent(node)]
              /\ editValue' = markdown
              /\ targetConnected' = TRUE
              /\ hidden' = HiddenOnOpen(path)
              /\ opens' = opens + 1
         ELSE UNCHANGED <<editingElement, editValue, targetConnected, hidden, opens>>
  /\ last' = Event("click", path)
  /\ saves' = 0 /\ failures' = 0
  /\ UNCHANGED <<storage, notes, activeNoteId, isLoading, editor, doc, now,
                 others>>

\* onChange of the overlay input: setEditValue(e.target.value)
onChange(v) ==
  /\ editingElement # Null
  /\ editValue' = v
  /\ last' = Event("change", <<>>)
  /\ saves' = 0 /\ failures' = 0
  /\ UNCHANGED <<storage, notes, activeNoteId, isLoading, editor, doc, hidden,
                 editingElement, targetConnected, now, opens, others>>

\* editingElement.target && editingElement.target.isConnected
TargetAttached == targetConnected

\* applyEdit writing the edited value as typed
CommitTextRaw(v) == v

\* the text applyEdit writes into the target
CommitText(v) == StripMarkdown(v)

\* the overlay closed only for a target that is still in the page
closeOverlayIfAttached ==
  IF targetConnected
  THEN editingElement' = Null /\ editValue' = <<>> /\ targetConnected' = FALSE
  ELSE UNCHANGED <<editingElement, editValue, targetConnected>>

\* setEditingElement(null); setEditValue('')
closeOverlay ==
  /\ editingElement' = Null
  /\ editValue' = <<>>
  /\ targetConnected' = FALSE

\* applyEdit without "|| !editor" in its first line
applyEditWithoutEditor(ok) ==
  IF editingElement = Null
  THEN /\ saves' = 0 /\ failures' = 0
       /\ UNCHANGED <<storage, notes, doc, editingElement, editValue, targetConnected>>
  ELSE /\ IF TargetAttached /\ editor
          THEN /\ doc' = SetTextContent(doc, editingElement.target, CommitText(editValue))
               /\ IF activeNoteId # NoId
                  THEN updateNote(activeNoteId, GetHTML(doc'), ok)
                  ELSE saves' = 0 /\ failures' = 0 /\ UNCHANGED <<storage, notes>>
          ELSE saves' = 0 /\ failures' = 0 /\ UNCHANGED <<storage, notes, doc>>
       /\ closeOverlay

\* applyEdit, for the outcome ok of the storage write it may make
applyEdit(ok) ==
  IF editingElement = Null \/ ~editor
  THEN /\ saves' = 0 /\ failures' = 0
       /\ UNCHANGED <<storage, notes, doc, editingElement, editValue, targetConnected>>
  ELSE /\ IF TargetAttached
          THEN /\ doc' = SetTextContent(doc, editingElement.target, CommitText(editValue))
               /\ IF activeNoteId # NoId
                  THEN updateNote(activeNoteId, GetHTML(doc'), ok)
                  ELSE saves' = 0 /\ failures' = 0 /\ UNCHANGED <<storage, notes>>
          ELSE saves' = 0 /\ failures' = 0 /\ UNCHANGED <<storage, notes, doc>>
       /\ closeOverlay

\* Escape handled like Enter
cancelEditApplies == applyEdit(TRUE)

\* the Escape branch of handleEditKeyDown
cancelEdit ==
  /\ closeOverlay
  /\ saves' = 0 /\ failures' = 0
  /\ UNCHANGED <<storage, notes, doc>>

\* handleEditKeyDown: a key pressed in the overlay input
handleEditKeyDown(key) ==
  /\ editingElement # Null
  /\ IF key = "Enter" THEN \E ok \in BOOLEAN : applyEdit(ok)
     ELSE IF key = "Escape" THEN cancelEdit
     ELSE /\ saves' = 0 /\ failures' = 0
          /\ UNCHANGED <<storage, notes, doc, editingElement, editValue,
                         targetConnected>>
  /\ last' = Event(key, <<>>)
  /\ UNCHANGED <<activeNoteId, isLoading, editor, hidden, now, opens, others>>

\* handleClickOutside without the negation of its closest() test
handleClickOutsideInverted(inPopup) ==
  /\ editingElement # Null
  /\ IF inPopup THEN \E ok \in BOOLEAN : applyEdit(ok)
     ELSE /\ saves' = 0 /\ failures' = 0
          /\ UNCHANGED <<storage, notes, doc, editingElement, editValue,
                         targetConnected>>
  /\ last' = Event(IF inPopup THEN "mousedown-popup" ELSE "mousedown", <<>>)
  /\ UNCHANGED <<activeNoteId, isLoading, editor, hidden, now, opens, others>>

\* handleClickOutside: a mousedown anywhere in the page while the overlay is
\* shown (the listener is registered only then), inside the popup or not
handleClickOutside(inPopup) ==
  /\ editingElement # Null
  /\ IF ~inPopup THEN \E ok \in BOOLEAN : applyEdit(ok)
     ELSE /\ saves' = 0 /\ failures' = 0
          /\ UNCHANGED <<storage, notes, doc, editingElement, editValue,
                         targetConnected>>
  /\ last' = Event(IF inPopup THEN "mousedown-popup" ELSE "mousedown", <<>>)
  /\ UNCHANGED <<activeNoteId, isLoading, editor, hidden, now, opens, others>>

\* the overlay input loses focus: the input has no onBlur handler
inputBlur ==
  /\ editingElement # Null
  /\ last' = Event("blur", <<>>)
  /\ saves' = 0 /\ failures' = 0
  /\ UNCHANGED <<storage, notes, activeNoteId, isLoading, editor, doc, hidden,
                 editingElement, editValue, targetConnected, now, opens, others>>

\* what useEditor returns to a render, which the library decides: the
\* instance, or null
useEditor(instance) ==
  /\ ~isLoading
  /\ editor' = instance
  /\ editor' # editor
  /\ last' = Event("editor", <<>>)
  /\ saves' = 0 /\ failures' = 0
  /\ UNCHANGED <<storage, notes, activeNoteId, isLoading, doc, hidden,
                 editingElement, editValue, targetConnected, now, opens, others>>

Next ==
  \/ LoadNotesOnMount
  \/ openPanel
  \/ \E id \in IdPool : SelectNote(id)
  \/ \E path \in ElementPaths(doc) : handleEditorClick(path)
  \/ \E v \in TypedValues : onChange(v)
  \/ \E key \in {"Enter", "Escape", "a"} : handleEditKeyDown(key)
  \/ \E inPopup \in BOOLEAN : handleClickOutside(inPopup)
  \/ inputBlur

Spec == Init /\ [][Next]_vars

(***************************************************************************)
(* The open-and-commit path of the overlay over all short texts: every     *)
(* stored collection is one note holding one element of a qualifying tag   *)
(* around one text, or one of the collections above.                       *)
(***************************************************************************)
\* the longest text enumerated
MaxLen == 2

Alphabet == {"a", " ", "*", "#", "-", BT}

Texts == UNION {[1..k -> Alphabet] : k \in 0..MaxLen}

ExtraTexts ==
  { <<"*", "a", "*">>,
    <<"S", "e", "c", "t", "i", "o", "n">>,
    <<"a", "<", "b">>,
    <<"a", "&", "b">>,
    <<"&", "l", "t", ";">> }

OneElement(tag, text) ==
  << Elem(tag, IF text = <<>> THEN <<>> ELSE <<TextNode(text)>>) >>

TextCollections ==
  { << Note("n1", GetHTML(OneElement(tag, text)), 0, 0) >> :
      tag \in Qualifying, text \in Texts \cup ExtraTexts }

InitText ==
  /\ storage \in TextCollections \cup (StoredCollections \ {<<>>})
  /\ saves = 0
  /\ failures = 0
  /\ notes = <<>>
  /\ activeNoteId = NoId
  /\ isLoading = TRUE
  /\ editor = FALSE
  /\ doc = <<>>
  /\ hidden = {}
  /\ editingElement = Null
  /\ editValue = <<>>
  /\ targetConnected = FALSE
  /\ now = 0
  /\ opens = 0
  /\ last = [type |-> "init", path |-> <<>>, editing |-> FALSE,
             dirty |-> FALSE, connected |-> FALSE]
  /\ InitOthers

NextText ==
  \/ LoadNotesOnMount
  \/ \E path \in ElementPaths(doc) : handleEditorClick(path)
  \/ \E key \in {"Enter", "Escape"} : handleEditKeyDown(key)

SpecText == InitText /\ [][NextText]_vars

\* the overlay with an editor instance that the hook may fail to give
NextLeave ==
  \/ LoadNotesOnMount
  \/ \E instance \in BOOLEAN : useEditor(instance)
  \/ openPanel
  \/ \E id \in IdPool : SelectNote(id)
  \/ \E path \in ElementPaths(doc) : handleEditorClick(path)
  \/ \E v \in TypedValues : onChange(v)
  \/ \E key \in {"Enter", "Escape"} : handleEditKeyDown(key)
  \/ \E inPopup \in BOOLEAN : handleClickOutside(inPopup)

SpecLeave == Init /\ [][NextLeave]_vars

(***************************************************************************)
(* The note collection and its debounced persistence.                      *)
(***************************************************************************)
\* the delay debouncedUpdateNote is built with, in milliseconds
DebounceMs == 300

\* the clock stops here
MaxTime == 400

\* the collection is not grown beyond this
MaxNotes == 2

\* the steps the clock advances by
Delays == {100, 300}

DocZ == << Elem("p", <<TextNode(<<"z">>)>>) >>

\* the documents typing in the editor can lead to
TypedDocs == {DocC, DocZ}

\* the handle setTimeout returns: one no live timeout has, other than the
\* one returned last
NewHandle ==
  MinOf({h \in 1..(Cardinality(timers) + 2) :
           h # timer /\ \A t \in timers : t.handle # h})

\* debounce without its clearTimeout
clearTimeoutSkipped(ts, h) == ts

\* clearTimeout(h)
clearTimeout(ts, h) == {t \in ts : t.handle # h}

\* the function debounce returns, called with (id, content): the pending
\* timeout is cleared and a new one is set
debounce(id, content) ==
  /\ timers' = clearTimeout(timers, timer)
                 \cup {[handle |-> NewHandle, id |-> id, content |-> content,
                        due |-> now + DebounceMs]}
  /\ timer' = NewHandle

debouncedUpdateNote(id, content) == debounce(id, content)

\* onUpdate of the editor
onUpdate(content) ==
  IF activeNoteId # NoId
  THEN debouncedUpdateNote(activeNoteId, content)
  ELSE UNCHANGED <<timer, timers>>

\* the user changes the document in the editor, which calls onUpdate
editorUpdate(d) ==
  /\ ~isLoading /\ editor
  /\ panel = "closed"
  /\ editingElement = Null
  /\ d # doc
  /\ doc' = d
  /\ onUpdate(GetHTML(d))
  /\ edited' = [edited EXCEPT ![activeNoteId] =
                  [made |-> TRUE, content |-> GetHTML(d)]]
  /\ last' = Event("update", <<>>)
  /\ saves' = 0 /\ failures' = 0
  /\ UNCHANGED <<storage, notes, activeNoteId, isLoading, editor, hidden,
                 editingElement, editValue, targetConnected, now, opens,
                 batch, logged, exported, panel>>

\* the save going to the note that is active when the timeout fires
ArgsIdActive(t) == activeNoteId

\* the id among the arguments func is called with, kept since the call of
\* the debounced function
ArgsId(t) == t.id

\* a timeout set by debounce fires: updateNote(id, content)
timeoutFires(t) ==
  /\ t \in timers
  /\ now >= t.due
  /\ timers' = timers \ {t}
  /\ \E ok \in BOOLEAN : updateNote(ArgsId(t), t.content, ok)
  /\ last' = Event("timeout", <<>>)
  /\ UNCHANGED <<activeNoteId, isLoading, editor, doc, hidden, editingElement,
                 editValue, targetConnected, now, opens, timer, edited,
                 batch, logged, exported, panel>>

\* time passes; a timeout that is due fires before the clock moves past it
Tick(d) ==
  /\ now + d <= MaxTime
  /\ \A t \in timers : t.due >= now + d
  /\ now' = now + d
  /\ last' = Event("tick", <<>>)
  /\ saves' = 0 /\ failures' = 0
  /\ UNCHANGED <<storage, notes, activeNoteId, isLoading, editor, doc, hidden,
                 editingElement, editValue, targetConnected, opens, others>>

\* handleCreateNote with a write whose failure stops the state update
handleCreateNoteAborting(id, ok) ==
  /\ ~isLoading
  /\ panel # "closed"
  /\ panel' = "closed"
  /\ Len(notes) < MaxNotes
  /\ notes' = IF ok THEN <<createNote(id, now)>> \o notes ELSE notes
  /\ saveNotes(<<createNote(id, now)>> \o notes, ok)
  /\ activeNoteId' = id
  /\ doc' = IF id # activeNoteId THEN ParseContent(<<>>) ELSE doc
  /\ targetConnected' = (targetConnected /\ id = activeNoteId)
  /\ edited' = [edited EXCEPT ![id] = NoEdit]
  /\ last' = Event("create", <<>>)
  /\ UNCHANGED <<isLoading, editor, hidden, editingElement, editValue, now,
                 opens, timer, timers, batch, logged, exported>>

\* "New note" of the panel: handleCreateNote, then onClose; the id is
\* whatever generateId returns; the editor is created anew when the active
\* id changes
handleCreateNote(id, ok) ==
  /\ ~isLoading
  /\ panel # "closed"
  /\ panel' = "closed"
  /\ Len(notes) < MaxNotes
  /\ notes' = <<createNote(id, now)>> \o notes
  /\ saveNotes(notes', ok)
  /\ activeNoteId' = id
  /\ doc' = IF id # activeNoteId
            THEN ParseContent(ContentOf(notes', id)) ELSE doc
  /\ targetConnected' = (targetConnected /\ id = activeNoteId)
  /\ edited' = [edited EXCEPT ![id] = NoEdit]
  /\ last' = Event("create", <<>>)
  /\ UNCHANGED <<isLoading, editor, hidden, editingElement, editValue, now,
                 opens, timer, timers, batch, logged, exported>>

\* prev.filter(n => n.id !== id)
WithoutNote(ns, id) == SelectSeq(ns, LAMBDA n : n.id # id)

\* handleDeleteNote without its "if (id === activeNoteId)" block
handleDeleteNoteOnlyFilters(id, newId, ok1, ok2) ==
  /\ ~isLoading
  /\ panel # "closed"
  /\ \E k \in 1..Len(notes) : notes[k].id = id
  /\ notes' = filteredNotes(WithoutNote(notes, id), panel)
  /\ saveNotes(WithoutNote(notes, id), ok1)
  /\ edited' = [edited EXCEPT ![id] = NoEdit]
  /\ last' = Event("delete", <<>>)
  /\ UNCHANGED <<activeNoteId, doc, targetConnected, isLoading, editor, hidden,
                 editingElement, editValue, now, opens, timer, timers, batch,
                 logged, exported, panel>>

\* the delete button of a note of the panel, which stays shown and renders
\* with the new collection: handleDeleteNote(id); the last note deleted is
\* replaced by a new one, written by a second saveNotes
handleDeleteNote(id, newId, ok1, ok2) ==
  /\ ~isLoading
  /\ panel # "closed"
  /\ \E k \in 1..Len(notes) : notes[k].id = id
  /\ LET updated == WithoutNote(notes, id)
         withNew == <<createNote(newId, now)>>
         stored1 == IF ok1 THEN updated ELSE storage
     IN  IF id = activeNoteId /\ updated = <<>>
         THEN /\ notes' = withNew
              /\ storage' = IF ok2 THEN withNew ELSE stored1
              /\ saves' = 2
              /\ failures' = (IF ok1 THEN 0 ELSE 1) + (IF ok2 THEN 0 ELSE 1)
              /\ activeNoteId' = newId
         ELSE /\ notes' = filteredNotes(updated, panel)
              /\ storage' = stored1
              /\ saves' = 1
              /\ failures' = IF ok1 THEN 0 ELSE 1
              /\ activeNoteId' = IF id = activeNoteId THEN updated[1].id
                                 ELSE activeNoteId
  /\ doc' = IF activeNoteId' # activeNoteId
            THEN ParseContent(ContentOf(notes', activeNoteId')) ELSE doc
  /\ targetConnected' = (targetConnected /\ activeNoteId' = activeNoteId)
  /\ edited' = [edited EXCEPT ![id] = NoEdit]
  /\ last' = Event("delete", <<>>)
  /\ UNCHANGED <<isLoading, editor, hidden, editingElement, editValue, now,
                 opens, timer, timers, batch, logged, exported, panel>>

\* the editor and its debounced save, over the notes that were stored
NextDebounce ==
  \/ LoadNotesOnMount
  \/ openPanel
  \/ \E id \in IdPool : SelectNote(id)
  \/ \E d \in TypedDocs : editorUpdate(d)
  \/ \E t \in timers : timeoutFires(t)
  \/ \E d \in Delays : Tick(d)

SpecDebounce == Init /\ [][NextDebounce]_vars

\* the collection under load, create, update and delete
NextNotes ==
  \/ LoadNotesOnMount
  \/ openPanel
  \/ closePanel
  \/ \E id \in IdPool : SelectNote(id)
  \/ \E id \in IdPool, ok \in BOOLEAN : handleCreateNote(id, ok)
  \/ \E id \in IdPool, newId \in IdPool, ok1 \in BOOLEAN, ok2 \in BOOLEAN :
       handleDeleteNote(id, newId, ok1, ok2)

SpecNotes == Init /\ [][NextNotes]_vars

\* a first session, with nothing stored: every operation that writes the
\* collection, each write failing or not
InitWrites == Init /\ storage = <<>>

NextWrites ==
  \/ LoadNotesOnMount
  \/ openPanel
  \/ closePanel
  \/ editorUpdate(DocZ)
  \/ \E t \in timers : timeoutFires(t)
  \/ Tick(DebounceMs)
  \/ \E ok \in BOOLEAN : handleCreateNote("n2", ok)
  \/ \E id \in IdPool, ok1 \in BOOLEAN, ok2 \in BOOLEAN :
       handleDeleteNote(id, "n3", ok1, ok2)

SpecWrites == InitWrites /\ [][NextWrites]_vars

\* the panel over notes that change: a note is chosen in the panel, edited
\* and saved, and the panel is shown again, searched and used to delete
NextPanel ==
  \/ LoadNotesOnMount
  \/ openPanel
  \/ closePanel
  \/ \E blank \in BOOLEAN : setSearchQuery(blank)
  \/ \E id \in IdPool : SelectNote(id)
  \/ editorUpdate(DocZ)
  \/ \E t \in timers : timeoutFires(t)
  \/ Tick(DebounceMs)
  \/ \E id \in IdPool, ok1 \in BOOLEAN, ok2 \in BOOLEAN :
       handleDeleteNote(id, "n3", ok1, ok2)

SpecPanel == Init /\ [][NextPanel]_vars

\* typing in the editor, the overlay and the clock together: a change of the
\* document schedules a save, and the overlay can be opened and committed
\* before the save is due
NextCommit ==
  \/ LoadNotesOnMount
  \/ editorUpdate(DocC)
  \/ \E path \in ElementPaths(doc) : handleEditorClick(path)
  \/ \E v \in TypedValues : onChange(v)
  \/ \E key \in {"Enter", "Escape"} : handleEditKeyDown(key)
  \/ \E t \in timers : timeoutFires(t)
  \/ \E d \in Delays : Tick(d)

SpecCommit == InitWrites /\ [][NextCommit]_vars

(***************************************************************************)
(* The Markdown export (htmlToMarkdown of NotesPanel.tsx): the rewrites of *)
(* the source, in source order.                                            *)
(***************************************************************************)
RECURSIVE ReplaceBlockFrom(_, _, _, _, _)
ReplaceBlockFrom(s, i, name, pre, suf) ==
  IF i > Len(s) THEN <<>>
  ELSE LET ol    == OpenTagLen(s, i, name)
           close == <<"<", "/">> \o name \o <<">">>
           j     == IF ol = 0 THEN 0 ELSE IndexFrom(s, i + ol, close)
       IN  IF ol > 0 /\ j > 0
           THEN pre \o SubSeq(s, i + ol, j - 1) \o suf
                    \o ReplaceBlockFrom(s, j + Len(close), name, pre, suf)
           ELSE LET n == SkipTo(s, i + 1, <<"<">> \o name)
                IN  SubSeq(s, i, n - 1) \o ReplaceBlockFrom(s, n, name, pre, suf)

\* s.replace(/<name[^>]*>([\s\S]*?)<\/name>/gi, pre + '$1' + suf)
ReplaceBlock(s, name, pre, suf) == ReplaceBlockFrom(s, 1, name, pre, suf)

\* the decimal digits of n, as a template literal writes a number
RECURSIVE DecimalOf(_)
DecimalOf(n) ==
  LET digit == <<"0", "1", "2", "3", "4", "5", "6", "7", "8", "9">>[(n % 10) + 1]
  IN  IF n < 10 THEN <<digit>> ELSE DecimalOf(n \div 10) \o <<digit>>

\* the inner replace of the <ol> callback.  Its replacement is a function,
\* and what a replacement function returns is inserted as it is: the "$1"
\* of the template string is not expanded to the captured item
RECURSIVE NumberItemsFrom(_, _, _)
NumberItemsFrom(s, i, index) ==
  IF i > Len(s) THEN <<>>
  ELSE LET ol == OpenTagLen(s, i, <<"l", "i">>)
           j  == IF ol = 0 THEN 0 ELSE IndexFrom(s, i + ol, <<"<", "/", "l", "i", ">">>)
       IN  IF ol > 0 /\ j > 0
           THEN DecimalOf(index + 1) \o <<".", " ", "$", "1", "\n">>
                    \o NumberItemsFrom(s, j + 5, index + 1)
           ELSE LET n == SkipTo(s, i + 1, <<"<", "l", "i">>)
                IN  SubSeq(s, i, n - 1) \o NumberItemsFrom(s, n, index)

\* what the callback of the <ul> and of the <ol> replace returns
ListOut(name, content) ==
  (IF name = <<"u", "l">>
   THEN ReplaceBlock(content, <<"l", "i">>, <<"-", " ">>, <<"\n">>)
   ELSE NumberItemsFrom(content, 1, 0)) \o <<"\n">>

RECURSIVE ReplaceListFrom(_, _, _)
ReplaceListFrom(s, i, name) ==
  IF i > Len(s) THEN <<>>
  ELSE LET ol    == OpenTagLen(s, i, name)
           close == <<"<", "/">> \o name \o <<">">>
           j     == IF ol = 0 THEN 0 ELSE IndexFrom(s, i + ol, close)
       IN  IF ol > 0 /\ j > 0
           THEN ListOut(name, SubSeq(s, i + ol, j - 1))
                    \o ReplaceListFrom(s, j + Len(close), name)
           ELSE LET n == SkipTo(s, i + 1, <<"<">> \o name)
                IN  SubSeq(s, i, n - 1) \o ReplaceListFrom(s, n, name)

\* s.replace(/<ul[^>]*>([\s\S]*?)<\/ul>/gi, callback), and the same for ol
ReplaceList(s, name) == ReplaceListFrom(s, 1, name)

RECURSIVE ReplaceCheckedFrom(_, _, _, _)
ReplaceCheckedFrom(s, i, attr, pre) ==
  IF i > Len(s) THEN <<>>
  ELSE LET ol == OpenTagLen(s, i, <<"l", "i">>)
           at == ol > 0 /\ \E k \in (i + 3)..(i + ol - 1 - Len(attr)) :
                             StartsWithAt(s, k, attr)
           j  == IF at THEN IndexFrom(s, i + ol, <<"<", "/", "l", "i", ">">>) ELSE 0
       IN  IF at /\ j > 0
           THEN pre \o SubSeq(s, i + ol, j - 1) \o <<"\n">>
                    \o ReplaceCheckedFrom(s, j + 5, attr, pre)
           ELSE LET n == SkipTo(s, i + 1, <<"<", "l", "i">>)
                IN  SubSeq(s, i, n - 1) \o ReplaceCheckedFrom(s, n, attr, pre)

\* s.replace(/<li[^>]*attr[^>]*>([\s\S]*?)<\/li>/gi, pre + '$1\n')
ReplaceChecked(s, attr, pre) == ReplaceCheckedFrom(s, 1, attr, pre)

RECURSIVE ReplacePreCodeFrom(_, _)
ReplacePreCodeFrom(s, i) ==
  IF i > Len(s) THEN <<>>
  ELSE LET o1    == OpenTagLen(s, i, <<"p", "r", "e">>)
           o2    == IF o1 = 0 THEN 0 ELSE OpenTagLen(s, i + o1, <<"c", "o", "d", "e">>)
           close == <<"<", "/", "c", "o", "d", "e", ">", "<", "/", "p", "r", "e", ">">>
           j     == IF o2 = 0 THEN 0 ELSE IndexFrom(s, i + o1 + o2, close)
       IN  IF o2 > 0 /\ j > 0
           THEN <<BT, BT, BT, "\n">> \o SubSeq(s, i + o1 + o2, j - 1) \o <<"\n", BT, BT, BT, "\n", "\n">>
                    \o ReplacePreCodeFrom(s, j + Len(close))
           ELSE LET n == SkipTo(s, i + 1, <<"<", "p", "r", "e">>)
                IN  SubSeq(s, i, n - 1) \o ReplacePreCodeFrom(s, n)

\* s.replace(/<pre[^>]*><code[^>]*>([\s\S]*?)<\/code><\/pre>/gi, fence)
ReplacePreCode(s) == ReplacePreCodeFrom(s, 1)

\* whether s has no ">" from position i to position j
NoTagEnd(s, i, j) == \A k \in i..j : s[k] # ">"

MaxOfSet(S) == CHOOSE x \in S : \A y \in S : y <= x

\* the match of /<a[^>]*href="([^"]*)"[^>]*>(.*?)<\/a>/ at position i: where
\* the address and the text lie and where the match ends, ok FALSE when
\* there is none.  The greedy [^>]* takes the last href=" of the tag that
\* leaves a match.
LinkAt(s, i) ==
  LET attr == <<"h", "r", "e", "f", "=", "\"">>
      tail(h) ==
        LET q  == IndexFrom(s, h + Len(attr), <<"\"">>)
            gt == IF q = 0 THEN 0 ELSE IndexFrom(s, q + 1, <<">">>)
            c  == IF gt = 0 THEN 0 ELSE IndexFrom(s, gt + 1, <<"<", "/", "a", ">">>)
        IN  [ok |-> c > 0 /\ NoLineBreak(s, gt + 1, c - 1),
             url |-> <<h + Len(attr), q - 1>>, text |-> <<gt + 1, c - 1>>,
             next |-> c + 4]
      hs == IF StartsWithAt(s, i, <<"<", "a">>)
            THEN {h \in (i + 2)..Len(s) :
                    /\ StartsWithAt(s, h, attr)
                    /\ NoTagEnd(s, i + 2, h - 1)
                    /\ tail(h).ok}
            ELSE {}
  IN  IF hs = {} THEN [ok |-> FALSE] ELSE tail(MaxOfSet(hs))

RECURSIVE ReplaceLinksFrom(_, _)
ReplaceLinksFrom(s, i) ==
  IF i > Len(s) THEN <<>>
  ELSE LET m == LinkAt(s, i)
       IN  IF m.ok
           THEN <<"[">> \o SubSeq(s, m.text[1], m.text[2]) \o <<"]", "(">>
                  \o SubSeq(s, m.url[1], m.url[2]) \o <<")">>
                  \o ReplaceLinksFrom(s, m.next)
           ELSE LET n == SkipTo(s, i + 1, <<"<", "a">>)
                IN  SubSeq(s, i, n - 1) \o ReplaceLinksFrom(s, n)

\* s.replace(/<a[^>]*href="([^"]*)"[^>]*>(.*?)<\/a>/gi, '[$2]($1)')
ReplaceLinks(s) == ReplaceLinksFrom(s, 1)

\* the match of /<img[^>]*src="([^"]*)"[^>]*\/?>/ at position i, with
\* [^>]*alt="([^"]*)" after the address when withAlt
ImageAt(s, i, withAlt) ==
  LET src == <<"s", "r", "c", "=", "\"">>
      alt == <<"a", "l", "t", "=", "\"">>
      altTail(q) ==
        LET as == {a \in (q + 1)..Len(s) :
                     /\ StartsWithAt(s, a, alt)
                     /\ NoTagEnd(s, q + 1, a - 1)
                     /\ LET q2 == IndexFrom(s, a + Len(alt), <<"\"">>)
                        IN  q2 > 0 /\ IndexFrom(s, q2 + 1, <<">">>) > 0}
            a  == MaxOfSet(as)
            q2 == IndexFrom(s, a + Len(alt), <<"\"">>)
        IN  IF as = {} THEN [ok |-> FALSE]
            ELSE [ok |-> TRUE, alt |-> <<a + Len(alt), q2 - 1>>,
                  next |-> IndexFrom(s, q2 + 1, <<">">>) + 1]
      tail(h) ==
        LET q  == IndexFrom(s, h + Len(src), <<"\"">>)
            gt == IF q = 0 THEN 0 ELSE IndexFrom(s, q + 1, <<">">>)
        IN  IF q = 0 THEN [ok |-> FALSE]
            ELSE IF withAlt
            THEN LET t == altTail(q)
                 IN  IF t.ok
                     THEN [ok |-> TRUE, url |-> <<h + Len(src), q - 1>>,
                           alt |-> t.alt, next |-> t.next]
                     ELSE [ok |-> FALSE]
            ELSE [ok |-> gt > 0, url |-> <<h + Len(src), q - 1>>,
                  alt |-> <<1, 0>>, next |-> gt + 1]
      hs == IF StartsWithAt(s, i, <<"<", "i", "m", "g">>)
            THEN {h \in (i + 4)..Len(s) :
                    /\ StartsWithAt(s, h, src)
                    /\ NoTagEnd(s, i + 4, h - 1)
                    /\ tail(h).ok}
            ELSE {}
  IN  IF hs = {} THEN [ok |-> FALSE] ELSE tail(MaxOfSet(hs))

RECURSIVE ReplaceImagesFrom(_, _, _)
ReplaceImagesFrom(s, i, withAlt) ==
  IF i > Len(s) THEN <<>>
  ELSE LET m == ImageAt(s, i, withAlt)
       IN  IF m.ok
           THEN <<"!", "[">> \o SubSeq(s, m.alt[1], m.alt[2]) \o <<"]", "(">>
                  \o SubSeq(s, m.url[1], m.url[2]) \o <<")">>
                  \o ReplaceImagesFrom(s, m.next, withAlt)
           ELSE LET n == SkipTo(s, i + 1, <<"<", "i", "m", "g">>)
                IN  SubSeq(s, i, n - 1) \o ReplaceImagesFrom(s, n, withAlt)

\* the two <img> replaces: '![$2]($1)' with alt, '![]($1)' without
ReplaceImages(s, withAlt) == ReplaceImagesFrom(s, 1, withAlt)

RECURSIVE ReplaceVoidFrom(_, _, _, _)
ReplaceVoidFrom(s, i, name, to) ==
  IF i > Len(s) THEN <<>>
  ELSE LET ol == OpenTagLen(s, i, name)
       IN  IF ol > 0 THEN to \o ReplaceVoidFrom(s, i + ol, name, to)
           ELSE LET n == SkipTo(s, i + 1, <<"<">> \o name)
                IN  SubSeq(s, i, n - 1) \o ReplaceVoidFrom(s, n, name, to)

\* s.replace(/<name[^>]*\/?>/gi, to)
ReplaceVoid(s, name, to) == ReplaceVoidFrom(s, 1, name, to)

\* content.split('\n').map(line => '> ' + line).join('\n') + '\n\n'
QuoteOut(content) ==
  <<">", " ">> \o ReplaceAll(content, <<"\n">>, <<"\n", ">", " ">>) \o <<"\n", "\n">>

RECURSIVE ReplaceQuoteFrom(_, _)
ReplaceQuoteFrom(s, i) ==
  IF i > Len(s) THEN <<>>
  ELSE LET ol == OpenTagLen(s, i, <<"b", "l", "o", "c", "k", "q", "u", "o", "t", "e">>)
           j  == IF ol = 0 THEN 0 ELSE IndexFrom(s, i + ol, <<"<", "/", "b", "l", "o", "c", "k", "q", "u", "o", "t", "e", ">">>)
       IN  IF ol > 0 /\ j > 0
           THEN QuoteOut(SubSeq(s, i + ol, j - 1))
                    \o ReplaceQuoteFrom(s, j + Len(<<"<", "/", "b", "l", "o", "c", "k", "q", "u", "o", "t", "e", ">">>))
           ELSE LET n == SkipTo(s, i + 1, <<"<", "b", "l", "o", "c", "k", "q", "u", "o", "t", "e">>)
                IN  SubSeq(s, i, n - 1) \o ReplaceQuoteFrom(s, n)

\* s.replace(/<blockquote[^>]*>([\s\S]*?)<\/blockquote>/gi, callback)
ReplaceQuote(s) == ReplaceQuoteFrom(s, 1)

\* md without the rewrite of line 89
CollapseBreaksSkipped(s) == s

RECURSIVE CollapseBreaksFrom(_, _)
CollapseBreaksFrom(s, i) ==
  IF i > Len(s) THEN <<>>
  ELSE IF s[i] # "\n"
  THEN LET n == SkipTo(s, i + 1, <<"\n">>)
       IN  SubSeq(s, i, n - 1) \o CollapseBreaksFrom(s, n)
  ELSE LET stop == {k \in i..Len(s) : s[k] # "\n"}
           n    == IF stop = {} THEN Len(s) + 1 - i ELSE MinOf(stop) - i
       IN  (IF n >= 3 THEN <<"\n", "\n">> ELSE SubSeq(s, i, i + n - 1))
             \o CollapseBreaksFrom(s, i + n)

\* s.replace(/\n{3,}/g, '\n\n')
CollapseBreaks(s) == CollapseBreaksFrom(s, 1)

\* the k-th assignment to md in htmlToMarkdown, in source order (lines 25 to 90)
Rewrite(k, md) ==
  CASE k = 1 -> ReplaceTag(md, <<"h", "1">>, <<"#", " ">>, <<"\n", "\n">>)
    [] k = 2 -> ReplaceTag(md, <<"h", "2">>, <<"#", "#", " ">>, <<"\n", "\n">>)
    [] k = 3 -> ReplaceTag(md, <<"h", "3">>, <<"#", "#", "#", " ">>, <<"\n", "\n">>)
    [] k = 4 -> ReplaceTag(md, <<"s", "t", "r", "o", "n", "g">>, <<"*", "*">>, <<"*", "*">>)
    [] k = 5 -> ReplaceTag(md, <<"b">>, <<"*", "*">>, <<"*", "*">>)
    [] k = 6 -> ReplaceTag(md, <<"e", "m">>, <<"*">>, <<"*">>)
    [] k = 7 -> ReplaceTag(md, <<"i">>, <<"*">>, <<"*">>)
    [] k = 8 -> ReplaceTag(md, <<"s">>, <<"~", "~">>, <<"~", "~">>)
    [] k = 9 -> ReplaceTag(md, <<"s", "t", "r", "i", "k", "e">>, <<"~", "~">>, <<"~", "~">>)
    [] k = 10 -> ReplaceTag(md, <<"c", "o", "d", "e">>, <<BT>>, <<BT>>)
    [] k = 11 -> ReplacePreCode(md)
    [] k = 12 -> ReplaceLinks(md)
    [] k = 13 -> ReplaceImages(md, TRUE)
    [] k = 14 -> ReplaceImages(md, FALSE)
    [] k = 15 -> ReplaceList(md, <<"u", "l">>)
    [] k = 16 -> ReplaceList(md, <<"o", "l">>)
    [] k = 17 -> ReplaceChecked(md, <<"d", "a", "t", "a", "-", "c", "h", "e", "c", "k", "e", "d", "=", "\"", "t", "r", "u", "e", "\"">>, <<"[", "x", "]", " ">>)
    [] k = 18 -> ReplaceChecked(md, <<"d", "a", "t", "a", "-", "c", "h", "e", "c", "k", "e", "d", "=", "\"", "f", "a", "l", "s", "e", "\"">>, <<"[", " ", "]", " ">>)
    [] k = 19 -> ReplaceQuote(md)
    [] k = 20 -> ReplaceVoid(md, <<"h", "r">>, <<"\n", "-", "-", "-", "\n", "\n">>)
    [] k = 21 -> ReplaceBlock(md, <<"p">>, <<>>, <<"\n", "\n">>)
    [] k = 22 -> ReplaceVoid(md, <<"b", "r">>, <<"\n">>)
    [] k = 23 -> RemoveTags(md)
    [] k = 24 -> ReplaceAll(md, <<"&", "n", "b", "s", "p", ";">>, <<" ">>)
    [] k = 25 -> ReplaceAll(md, <<"&", "a", "m", "p", ";">>, <<"&">>)
    [] k = 26 -> ReplaceAll(md, <<"&", "l", "t", ";">>, <<"<">>)
    [] k = 27 -> ReplaceAll(md, <<"&", "g", "t", ";">>, <<">">>)
    [] k = 28 -> ReplaceAll(md, <<"&", "q", "u", "o", "t", ";">>, <<"\"">>)
    [] k = 29 -> CollapseBreaks(md)
    [] k = 30 -> Trim(md)

\* md after the assignments from the k-th on; each value of md is computed
\* once and handed to the next assignment
RECURSIVE RewriteFrom(_, _)
RewriteFrom(k, md) ==
  IF k > 30 THEN md
  ELSE CHOOSE out \in {RewriteFrom(k + 1, next) : next \in {Rewrite(k, md)}} : TRUE

\* htmlToMarkdown
htmlToMarkdown(html) == RewriteFrom(1, html)

(***************************************************************************)
(* Documents given to the export, as the editor serializes them: ordered   *)
(* and bullet lists, task lists, blockquotes and code blocks of up to      *)
(* MaxItems items, paragraphs or lines.                                    *)
(***************************************************************************)
MaxItems == 3

ItemTexts == {<<"a">>, <<"b", " ", "c">>}

\* the content of an element: the text, in a paragraph when wrapped
Para(text, wrapped) ==
  IF wrapped THEN <<"<", "p", ">">> \o text \o <<"<", "/", "p", ">">> ELSE text

\* the serialization of a task item
TaskItemHTML(text, checked) ==
  (IF checked THEN <<"<", "l", "i", " ", "d", "a", "t", "a", "-", "c", "h", "e", "c", "k", "e", "d", "=", "\"", "t", "r", "u", "e", "\"", " ", "d", "a", "t", "a", "-", "t", "y", "p", "e", "=", "\"", "t", "a", "s", "k", "I", "t", "e", "m", "\"", ">">> ELSE <<"<", "l", "i", " ", "d", "a", "t", "a", "-", "c", "h", "e", "c", "k", "e", "d", "=", "\"", "f", "a", "l", "s", "e", "\"", " ", "d", "a", "t", "a", "-", "t", "y", "p", "e", "=", "\"", "t", "a", "s", "k", "I", "t", "e", "m", "\"", ">">>)
    \o <<"<", "l", "a", "b", "e", "l", ">", "<", "i", "n", "p", "u", "t", " ", "t", "y", "p", "e", "=", "\"", "c", "h", "e", "c", "k", "b", "o", "x", "\"">>
    \o (IF checked THEN <<" ", "c", "h", "e", "c", "k", "e", "d", "=", "\"", "c", "h", "e", "c", "k", "e", "d", "\"">> ELSE <<>>)
    \o <<">", "<", "s", "p", "a", "n", ">", "<", "/", "s", "p", "a", "n", ">", "<", "/", "l", "a", "b", "e", "l", ">">>
    \o <<"<", "d", "i", "v", ">">> \o Para(text, TRUE) \o <<"<", "/", "d", "i", "v", ">">> \o <<"<", "/", "l", "i", ">">>

\* the lines of a code block, joined by line breaks
RECURSIVE JoinLines(_)
JoinLines(lines) ==
  IF Len(lines) = 1 THEN lines[1]
  ELSE lines[1] \o <<"\n">> \o JoinLines(Tail(lines))

\* the HTML of the document src describes
Render(src) ==
  LET n == Len(src.items)
  IN  CASE src.kind = "ol" ->
             <<"<", "o", "l", ">">>
               \o Concat([k \in 1..n |->
                    <<"<", "l", "i", ">">> \o Para(src.items[k], src.wrapped) \o <<"<", "/", "l", "i", ">">>])
               \o <<"<", "/", "o", "l", ">">>
        [] src.kind = "ul" ->
             <<"<", "u", "l", ">">>
               \o Concat([k \in 1..n |->
                    <<"<", "l", "i", ">">> \o Para(src.items[k], src.wrapped) \o <<"<", "/", "l", "i", ">">>])
               \o <<"<", "/", "u", "l", ">">>
        [] src.kind = "task" ->
             <<"<", "u", "l", " ", "d", "a", "t", "a", "-", "t", "y", "p", "e", "=", "\"", "t", "a", "s", "k", "L", "i", "s", "t", "\"", ">">>
               \o Concat([k \in 1..n |-> TaskItemHTML(src.items[k], src.checked[k])])
               \o <<"<", "/", "u", "l", ">">>
        [] src.kind = "quote" ->
             <<"<", "b", "l", "o", "c", "k", "q", "u", "o", "t", "e", ">">>
               \o Concat([k \in 1..n |-> Para(src.items[k], TRUE)])
               \o <<"<", "/", "b", "l", "o", "c", "k", "q", "u", "o", "t", "e", ">">>
        [] src.kind = "raw" -> Concat(src.items)
        [] src.kind = "codeblock" ->
             <<"<", "p", "r", "e", ">", "<", "c", "o", "d", "e", ">">> \o JoinLines(src.items) \o <<"<", "/", "c", "o", "d", "e", ">", "<", "/", "p", "r", "e", ">">>

\* pieces of HTML a document can be made of: elements of the editor, text
\* and white space
Fragments ==
  { <<"<", "s", "p", "a", "n", ">", "x", "<", "/", "s", "p", "a", "n", ">">>,
    <<"<", "s", ">", "y", "<", "/", "s", ">">>,
    <<"<", "b", ">", "z", "<", "/", "b", ">">>,
    <<"<", "b", "r", ">">>,
    <<"<", "p", ">", "a", "<", "/", "p", ">">>,
    <<"<", "h", "r", ">">>,
    <<"w">>,
    <<"\n">>,
    <<" ">> }

ItemLists == UNION {[1..n -> ItemTexts] : n \in 1..MaxItems}

ExportSources ==
  {[kind |-> kind, items |-> items, wrapped |-> wrapped,
    checked |-> [k \in 1..Len(items) |-> FALSE]] :
     kind \in {"ol", "ul"}, items \in ItemLists, wrapped \in BOOLEAN}
  \cup
  {[kind |-> kind, items |-> items, wrapped |-> TRUE,
    checked |-> [k \in 1..Len(items) |-> FALSE]] :
     kind \in {"quote", "codeblock"}, items \in ItemLists}
  \cup
  UNION {{[kind |-> "task", items |-> items, wrapped |-> TRUE, checked |-> checked] :
            checked \in [1..Len(items) -> BOOLEAN]} : items \in ItemLists}
  \cup
  {[kind |-> "raw", items |-> items, wrapped |-> FALSE,
    checked |-> [k \in 1..Len(items) |-> FALSE]] :
     items \in UNION {[1..n -> Fragments] : n \in 1..MaxItems}}

\* the export has a document to convert
InitExport ==
  /\ storage = <<>>
  /\ saves = 0
  /\ failures = 0
  /\ notes = <<>>
  /\ activeNoteId = NoId
  /\ isLoading = TRUE
  /\ editor = FALSE
  /\ doc = <<>>
  /\ hidden = {}
  /\ editingElement = Null
  /\ editValue = <<>>
  /\ targetConnected = FALSE
  /\ now = 0
  /\ opens = 0
  /\ last = [type |-> "init", path |-> <<>>, editing |-> FALSE,
             dirty |-> FALSE, connected |-> FALSE]
  /\ timer = 0
  /\ timers = {}
  /\ edited = [id \in IdPool |-> NoEdit]
  /\ batch = NoBatch
  /\ logged = 0
  /\ panel = "closed"
  /\ \E src \in ExportSources :
       exported = [src |-> src, html |-> Render(src), md |-> <<>>, done |-> FALSE]

\* htmlToMarkdown is applied to the document
exportMarkdown ==
  /\ ~exported.done
  /\ exported' = [exported EXCEPT !.md = htmlToMarkdown(exported.html),
                                  !.done = TRUE]
  /\ last' = Event("export", <<>>)
  /\ saves' = 0 /\ failures' = 0
  /\ UNCHANGED <<storage, notes, activeNoteId, isLoading, editor, doc, hidden,
                 editingElement, editValue, targetConnected, now, opens,
                 timer, timers, edited, batch, logged, panel>>

NextExport == exportMarkdown

SpecExport == InitExport /\ [][NextExport]_vars


(***************************************************************************)
(* Images (TiptapEditor.tsx): files chosen in the file input, dropped on   *)
(* the page, dropped on the editor or pasted into it.  A file is an image  *)
(* that compressImage can turn into a data URL, an image that cannot be    *)
(* read (img.onerror), an image for which the canvas gives no 2d context,  *)
(* or a file of another type.  One batch is followed from its event to its *)
(* last file.                                                              *)
(***************************************************************************)
MaxFiles == 3

FileKinds == {"image", "unreadable", "noctx", "other"}

FileLists == UNION {[1..n -> FileKinds] : n \in 1..MaxFiles}

\* file.type.startsWith('image/')
IsImage(f) == f # "other"

\* compressImage(file) for the k-th file of the batch: resolved with the
\* data URL of the image or rejected
compressImage(f, k) ==
  IF f = "image" THEN [ok |-> TRUE, base64 |-> <<"d">> \o DecimalOf(k)]
  ELSE [ok |-> FALSE, base64 |-> <<>>]

\* the image node of the document
ImageNode(src) == [tag |-> "img", text |-> src, kids |-> <<>>]

\* a thrown error leaves the handler: no file is processed after it
AfterThrow(left, k) == {}

\* the catch block has logged the failure of file k: the files after it
\* are still processed
AfterCatch(left, k) == left \ {k}

\* the image files among files
Images(files) == {k \in 1..Len(files) : IsImage(files[k])}

\* handlers are called with files: left are the files whose compressImage
\* was started at once, one async callback each (images.forEach), queue
\* the files of the handler that awaits one file before it starts the next
\* (for...of with await)
startBatch(kind, files, left, queue) ==
  /\ ~isLoading /\ editor
  /\ editingElement = Null
  /\ batch = NoBatch
  /\ batch' = [kind |-> kind, files |-> files, left |-> left, queue |-> queue]
  /\ last' = Event(kind, <<>>)
  /\ saves' = 0 /\ failures' = 0
  /\ UNCHANGED <<storage, notes, activeNoteId, isLoading, editor, doc, hidden,
                 editingElement, editValue, targetConnected, now, opens,
                 timer, timers, edited, logged, exported, panel>>

\* handleFileSelect: the change event of the file input
handleFileSelect(files) ==
  /\ editor
  /\ startBatch("select", files, {}, Images(files))

\* handleDrop of the component: a drop on the page outside the editor
handleDrop(files) ==
  /\ editor
  /\ startBatch("drop", files, {}, Images(files))

\* a drop on the editor that carries images: editorProps.handleDrop is
\* called by the editor's listener; it prevents the default action and
\* returns true, and nothing stops the propagation of the event, which
\* bubbles to the container, whose onDrop is handleDrop of the component
editorPropsHandleDrop(files) ==
  /\ Images(files) # {}
  /\ startBatch("editorDrop", files, Images(files), Images(files))

\* editorProps.handlePaste: a paste that carries images
handlePaste(files) ==
  /\ Images(files) # {}
  /\ startBatch("paste", files, Images(files), {})

\* compressImage has settled for the k-th file, in a callback of forEach or
\* (inOrder) in the loop that awaits it: its image is inserted, which calls
\* onUpdate, or its failure is caught and logged.  Where in the document
\* the image goes is left out: it is put at the end.
imageSettled(k, inOrder) ==
  /\ batch # NoBatch
  /\ IF inOrder THEN batch.queue # {} /\ k = MinOf(batch.queue)
     ELSE k \in batch.left
  /\ LET r == compressImage(batch.files[k], k)
         d == Append(doc, ImageNode(r.base64))
         rest(pending) == IF r.ok THEN pending \ {k} ELSE AfterCatch(pending, k)
     IN  /\ batch' = IF inOrder THEN [batch EXCEPT !.queue = rest(@)]
                     ELSE [batch EXCEPT !.left = rest(@)]
         /\ IF r.ok
            THEN /\ doc' = d
                 /\ onUpdate(GetHTML(d))
                 /\ edited' = IF activeNoteId = NoId THEN edited
                              ELSE [edited EXCEPT ![activeNoteId] =
                                      [made |-> TRUE, content |-> GetHTML(d)]]
                 /\ UNCHANGED logged
            ELSE /\ logged' = logged + 1
                 /\ UNCHANGED <<doc, timer, timers, edited>>
  /\ last' = Event("image", <<>>)
  /\ saves' = 0 /\ failures' = 0
  /\ UNCHANGED <<storage, notes, activeNoteId, isLoading, editor, hidden,
                 editingElement, editValue, targetConnected, now, opens,
                 exported, panel>>

NextImages ==
  \/ LoadNotesOnMount
  \/ \E files \in FileLists : handleFileSelect(files)
  \/ \E files \in FileLists : handleDrop(files)
  \/ \E files \in FileLists : editorPropsHandleDrop(files)
  \/ \E files \in FileLists : handlePaste(files)
  \/ \E k \in 1..MaxFiles, inOrder \in BOOLEAN : imageSettled(k, inOrder)

\* the images are put in the note of a first visit
SpecImages == InitWrites /\ [][NextImages]_vars


(***************************************************************************)
(* Properties of the overlay.  A step is told by the event it handles      *)
(* (last'.type); unprimed variables are the state the handler found.       *)
(***************************************************************************)
Editing == editingElement # Null

\* a step of applyEdit reached from Enter or from a mousedown outside the popup
CommitStep == Editing /\ last'.type \in {"Enter", "mousedown"}

NewTitle == <<"N", "e", "w", " ", "T", "i", "t", "l", "e">>

C2_CommitWritesStrippedText ==
  [][(CommitStep /\ targetConnected)
       => LET t     == editingElement.target
              after == NodeAt(doc', t)
          IN  /\ after.tag = NodeAt(doc, t).tag
              /\ after.tag = editingElement.tagName
              /\ TextContent(after) = StripMarkdown(editValue)
              /\ ContentOf(notes', activeNoteId) = GetHTML(doc')
              /\ saves' = 1
              /\ storage' \in {notes', storage}
              /\ (editingElement.tagName = "h2"
                    /\ editValue = <<"#", "#", " ">> \o NewTitle)
                   => TextContent(after) = NewTitle]_vars

\* Enter committed "## New Title" into the h2 of the document
C2_Witness ==
  /\ last.type = "Enter" /\ last.editing /\ last.connected /\ last.dirty
  /\ doc[1].tag = "h2"
  /\ TextContent(doc[1]) = NewTitle
  /\ ContentOf(notes, activeNoteId) = GetHTML(doc)
  /\ storage = notes

\* C3: opening the overlay on an element and committing the pre-filled
\* value unchanged leaves the HTML of the document as it was.
C3_UnchangedCommitKeepsHTML ==
  [][(CommitStep /\ targetConnected /\ editValue = editingElement.markdown)
       => GetHTML(doc') = GetHTML(doc)]_vars

\* the element has no child element
TextOnly(node) == \A k \in 1..Len(node.kids) : node.kids[k].tag = "#text"

\* whether text holds none of the delimiter characters of the tag's entry
\* of the syntax table (the blank of "# " and "- " counted among them)
DelimiterFree(text, tag) ==
  \A k \in 1..Len(text) :
    /\ \A m \in 1..Len(SyntaxPrefix(tag)) : text[k] # SyntaxPrefix(tag)[m]
    /\ \A m \in 1..Len(SyntaxSuffix(tag)) : text[k] # SyntaxSuffix(tag)[m]

\* the overlay has just been opened on an element that holds text only
JustOpenedOnText ==
  /\ last.type = "click" /\ ~last.editing
  /\ Editing /\ targetConnected
  /\ TextOnly(NodeAt(doc, editingElement.target))

\* C4: for each tag of the syntax table and every text without that tag's
\* delimiter characters, the commit-time strip of the preview of the
\* element gives back the text.
C4_StripInvertsWrap ==
  (/\ JustOpenedOnText
   /\ editingElement.tagName \in Qualifying \ {"p"}
   /\ DelimiterFree(editingElement.originalText, editingElement.tagName))
    => StripMarkdown(editValue) = editingElement.originalText

\* C5 as claimed: Enter, the input losing focus and a mousedown outside the
\* popup each commit and return the overlay to Idle.
C5_EnterBlurOutsideCommit ==
  [][(Editing /\ last'.type \in {"Enter", "blur", "mousedown"})
       => editingElement' = Null]_vars

\* C5 amended: Enter and a mousedown outside the popup run the commit (a
\* still attached target takes the stripped value) and return the overlay
\* to Idle; the input losing focus does neither.
C5_EnterAndOutsideCommit ==
  [][/\ CommitStep
          => /\ editingElement' = Null /\ editValue' = <<>>
             /\ targetConnected
                  => doc' = SetTextContent(doc, editingElement.target,
                                           StripMarkdown(editValue))
     /\ (Editing /\ last'.type \in {"blur", "mousedown-popup"})
          => UNCHANGED <<editingElement, editValue, doc, notes, storage>>]_vars

\* a mousedown outside the popup closed an overlay whose value had been edited
C5_Witness ==
  /\ last.type = "mousedown" /\ last.editing /\ last.dirty /\ last.connected
  /\ ~Editing

\* C6: Escape returns the overlay to Idle and discards the edit buffer; the
\* document, the notes and the stored collection are as before, whatever
\* the input held.
C6_EscapeDiscards ==
  [][(Editing /\ last'.type = "Escape")
       => /\ editingElement' = Null /\ editValue' = <<>>
          /\ saves' = 0
          /\ UNCHANGED <<doc, notes, storage>>]_vars

\* Escape closed an overlay whose value had been edited
C6_Witness ==
  /\ last.type = "Escape" /\ last.editing /\ last.dirty /\ last.connected
  /\ ~Editing

\* C7: a commit whose target has left the document changes no node and
\* returns the overlay to Idle with target and edit buffer cleared.
C7_DetachedCommitOnlyCloses ==
  [][(CommitStep /\ ~targetConnected)
       => /\ doc' = doc
          /\ editingElement' = Null /\ editValue' = <<>>]_vars

\* a commit ran for a target that a change of note had detached
C7_Witness ==
  /\ last.type \in {"Enter", "mousedown"} /\ last.editing /\ ~last.connected
  /\ last.dirty
  /\ ~Editing

\* C8 as claimed: every commit, whatever the state of the target, calls
\* saveNotes.
C8_EveryCommitSaves ==
  [][(CommitStep /\ editingElement' = Null) => saves' = 1]_vars

\* C8 amended: a commit calls updateNote, and so saveNotes, exactly when
\* its target is still attached; a commit for a detached target leaves the
\* notes and the stored collection alone.
C8_CommitSavesIffAttached ==
  [][CommitStep
       => /\ saves' = (IF targetConnected THEN 1 ELSE 0)
          /\ targetConnected
               => /\ notes' = UpdatedNotes(notes, activeNoteId, GetHTML(doc'), now)
                  /\ storage' \in {notes', storage}
          /\ ~targetConnected => UNCHANGED <<notes, storage>>]_vars

\* a commit for an attached target reached local storage
C8_Witness ==
  /\ last.type \in {"Enter", "mousedown"} /\ last.editing /\ last.connected
  /\ saves = 1
  /\ storage = notes
  /\ ContentOf(storage, activeNoteId) = GetHTML(doc)

C10_PrefillIsWrappedText ==
  (last.type = "click" /\ ~last.editing /\ Editing)
    => editValue = SyntaxPrefix(editingElement.tagName)
                     \o editingElement.originalText
                     \o SyntaxSuffix(editingElement.tagName)

\* whether text is free of the character references the preview decodes
\* twice
NoReference(text) ==
  /\ IndexFrom(text, 1, <<"&", "l", "t", ";">>) = 0
  /\ IndexFrom(text, 1, <<"&", "g", "t", ";">>) = 0

\* C10 amended: the overlay opens pre-filled with the preview of the
\* element's outerHTML, which is never empty; for an element without child
\* elements whose text holds no "&lt;" or "&gt;" this is prefix + text +
\* suffix with the white space at both ends removed, so "## Section" for an
\* h2 "Section" and "#" for an empty h1.
C10_PrefillIsTrimmedPreview ==
  (last.type = "click" /\ ~last.editing /\ Editing)
    => LET tag  == editingElement.tagName
           text == editingElement.originalText
           node == NodeAt(doc, editingElement.target)
       IN  /\ editValue # <<>>
           /\ editValue = editingElement.markdown
           /\ tag = node.tag /\ text = TextContent(node)
           /\ (TextOnly(node) /\ NoReference(text))
                => editValue = Trim(SyntaxPrefix(tag) \o text \o SyntaxSuffix(tag))
           /\ (tag = "h2" /\ text = <<"S", "e", "c", "t", "i", "o", "n">>)
                => editValue = <<"#", "#", " ", "S", "e", "c", "t", "i", "o", "n">>

\* the overlay has just been opened on an h2 "Section"
C10_Witness ==
  /\ JustOpenedOnText
  /\ editingElement.tagName = "h2"
  /\ editingElement.originalText = <<"S", "e", "c", "t", "i", "o", "n">>
  /\ editValue = <<"#", "#", " ", "S", "e", "c", "t", "i", "o", "n">>

(***************************************************************************)
(* Properties of the debounced persistence and of the note collection.     *)
(***************************************************************************)
DistinctIds(ns) == \A i \in 1..Len(ns), j \in 1..Len(ns) : ns[i].id = ns[j].id => i = j

\* C11: once no save is pending any more (every timeout set has fired, so
\* the debounce interval has passed since the last change) and the last
\* write went through, the stored content of every note changed in the
\* editor is the content of the latest change made to it.
C11_LastEditPersisted ==
  \A id \in IdPool :
    (/\ edited[id].made
     /\ timers = {}
     /\ storage = notes
     /\ DistinctIds(notes))
      => ContentOf(storage, id) = edited[id].content

\* C12: at most one save is pending at any time; a change leaves exactly
\* the save it schedules pending, due one debounce interval later and
\* carrying the content of that change; the save that fires is the only one
\* pending, makes one write and carries the content of the latest change.
C12_ChangesCoalesce ==
  [][/\ Cardinality(timers') <= 1
     /\ last'.type = "update"
          => timers' = {[handle |-> timer', id |-> activeNoteId,
                         content |-> GetHTML(doc'), due |-> now + DebounceMs]}
     /\ last'.type = "timeout"
          => \E t \in timers :
               /\ timers = {t} /\ timers' = {}
               /\ saves' = 1
               /\ t.content = edited[t.id].content
               /\ ContentOf(notes', t.id) = t.content
               /\ storage' \in {UpdatedNotes(notes, t.id, t.content, now),
                                storage}]_vars

\* a second change arrived before the save of the first was due, and one
\* save is pending
C12_Witness ==
  /\ last.type = "update"
  /\ timer = 2
  /\ now > 0 /\ now < DebounceMs
  /\ \E t \in timers : timers = {t} /\ t.due = now + DebounceMs

\* C13: the mount effect creates exactly one note, empty and active, and
\* hands it to saveNotes when nothing is stored or the stored data cannot be
\* read; it takes a stored collection as it is, its first note active, and
\* writes nothing.
C13_FirstLoad ==
  [][/\ (last'.type = "load-unreadable" \/ (last'.type = "load" /\ storage = <<>>))
          => /\ Len(notes') = 1
             /\ notes'[1].content = <<>>
             /\ activeNoteId' = notes'[1].id
             /\ saves' = 1
             /\ storage' \in {notes', storage}
     /\ (last'.type = "load" /\ storage # <<>>)
          => /\ notes' = storage
             /\ activeNoteId' = storage[1].id
             /\ saves' = 0
             /\ storage' = storage]_vars

\* the page was opened on an empty store and the first note was stored
C13_Witness ==
  /\ last.type = "load"
  /\ Len(notes) = 1
  /\ notes[1].content = <<>>
  /\ activeNoteId = notes[1].id
  /\ storage = notes
  /\ doc = <<Elem("p", <<>>)>>

\* C14: whether the write they make fails or not, a create prepends the new
\* note, now active, to the collection in memory, the deferred update puts
\* the content into its note, and a delete removes the note (a new note
\* standing in for the last one); the handler runs to its end, and the
\* panel, when shown, renders with the collection the handler made.
C14_FailedWriteKeepsMemory ==
  [][/\ last'.type = "create"
          => /\ notes' = <<createNote(activeNoteId', now)>> \o notes
             /\ saves' = 1
             /\ storage' \in {notes', storage}
     /\ last'.type = "timeout"
          => \E t \in timers :
               /\ notes' = filteredNotes(UpdatedNotes(notes, t.id, t.content, now),
                                         panel)
               /\ saves' = 1
               /\ storage' \in {UpdatedNotes(notes, t.id, t.content, now),
                                storage}
     /\ last'.type = "delete"
          => \E id \in IdPool :
               /\ \E k \in 1..Len(notes) : notes[k].id = id
               /\ notes' = IF id = activeNoteId /\ WithoutNote(notes, id) = <<>>
                           THEN <<createNote(activeNoteId', now)>>
                           ELSE filteredNotes(WithoutNote(notes, id), panel)
               /\ saves' >= 1
               /\ storage' \in {notes', storage, WithoutNote(notes, id)}]_vars

\* a note was created while the write of the collection failed
C14_Witness ==
  /\ last.type = "create"
  /\ Len(notes) = 2
  /\ notes[1] = createNote(activeNoteId, now)
  /\ Len(storage) = 1
  /\ storage # notes

\* C15: the ids of the notes of the collection are pairwise distinct.
C15_IdsDistinct == DistinctIds(notes)


(***************************************************************************)
(* Properties of the Markdown export.                                      *)
(***************************************************************************)
\* the lines of s from position i on
RECURSIVE LinesFrom(_, _)
LinesFrom(s, i) ==
  LET n == SkipTo(s, i, <<"\n">>)
  IN  IF n > Len(s) THEN <<SubSeq(s, i, Len(s))>>
      ELSE <<SubSeq(s, i, n - 1)>> \o LinesFrom(s, n + 1)

\* the lines of s that are not empty
TextLines(s) == SelectSeq(LinesFrom(s, 1), LAMBDA l : l # <<>>)

Exported(kind) == exported.done /\ exported.src.kind = kind

\* C16: the export of an ordered list has one line per item, "N. " followed
\* by the item's text, N counting 1, 2, 3, ... in document order
C16_OrderedItemsKeepText ==
  Exported("ol") =>
    TextLines(exported.md) =
      [k \in 1..Len(exported.src.items) |->
         DecimalOf(k) \o <<".", " ">> \o exported.src.items[k]]

\* C17: the export of a task list has one line per item, "[x] " before the
\* text of a checked item and "[ ] " before the text of an unchecked one
C17_TaskItemsMarked ==
  Exported("task") =>
    TextLines(exported.md) =
      [k \in 1..Len(exported.src.items) |->
         (IF exported.src.checked[k] THEN <<"[", "x", "]", " ">>
                                     ELSE <<"[", " ", "]", " ">>)
           \o exported.src.items[k]]

\* C18: the export of a blockquote has every line of its paragraphs
\* prefixed with "> ", whether it holds one paragraph or several
C18_QuoteLinesPrefixed ==
  Exported("quote") =>
    TextLines(exported.md) =
      [k \in 1..Len(exported.src.items) |-> <<">", " ">> \o exported.src.items[k]]

\* C20: the export of a code block is a fenced block, a line of three
\* backticks, the content and a line of three backticks, never inline code
C20_CodeBlockFenced ==
  Exported("codeblock") =>
    exported.md = <<BT, BT, BT, "\n">> \o JoinLines(exported.src.items)
                    \o <<"\n", BT, BT, BT>>


(***************************************************************************)
(* Properties of the image handlers.                                       *)
(***************************************************************************)
BatchDone == batch # NoBatch /\ batch.left = {} /\ batch.queue = {}

\* the handlers that process the files of the batch
Handlers == IF batch.kind = "editorDrop" THEN 2 ELSE 1

\* the files of the batch whose image is in the document
Inserted ==
  {k \in 1..Len(batch.files) :
     \E j \in 1..Len(doc) : doc[j] = ImageNode(<<"d">> \o DecimalOf(k))}

Failing(f) == f \in {"unreadable", "noctx"}

\* C19: when every file of a batch has been dealt with, each failure has
\* been logged by the handler it happened in and the images in the document
\* are those of all the image files that did not fail, whichever files of
\* the batch failed
C19_FailureSkipsOnlyThatFile ==
  BatchDone =>
    /\ Inserted = {k \in 1..Len(batch.files) : batch.files[k] = "image"}
    /\ logged = Handlers * Cardinality({k \in 1..Len(batch.files) :
                                          Failing(batch.files[k])})

\* a batch is done in which a file failed and images before and after it
\* were inserted
C19_Witness ==
  /\ BatchDone
  /\ \E i, j, k \in 1..Len(batch.files) :
       /\ i < j /\ j < k
       /\ Failing(batch.files[j])
       /\ {i, k} \subseteq Inserted


\* a run of three line breaks somewhere in s
HasLongBreak(s) == IndexFrom(s, 1, <<"\n", "\n", "\n">>) # 0

\* C21: what htmlToMarkdown returns holds no run of three or more line
\* breaks and neither starts nor ends with white space
C21_BreaksCollapsedAndTrimmed ==
  exported.done =>
    /\ ~HasLongBreak(exported.md)
    /\ exported.md # <<>> =>
         ~IsSpace(exported.md[1]) /\ ~IsSpace(exported.md[Len(exported.md)])

\* a document was converted whose paragraph, rule and paragraph give four
\* line breaks in a row and line breaks at the end before line 89 is reached
C21_Witness ==
  /\ exported.done
  /\ exported.html = <<"<", "p", ">", "a", "<", "/", "p", ">", "<", "h", "r", ">",
                       "<", "p", ">", "a", "<", "/", "p", ">">>
  /\ exported.md = <<"a", "\n", "\n", "-", "-", "-", "\n", "\n", "a">>


\* the Markdown of a fragment when each rewrite applies to the element of
\* exactly its tag name
MarkdownOf(f) ==
  CASE f = <<"<", "s", "p", "a", "n", ">", "x", "<", "/", "s", "p", "a", "n", ">">> -> <<"x">>
    [] f = <<"<", "s", ">", "y", "<", "/", "s", ">">> -> <<"~", "~", "y", "~", "~">>
    [] f = <<"<", "b", ">", "z", "<", "/", "b", ">">> -> <<"*", "*", "z", "*", "*">>
    [] f = <<"<", "b", "r", ">">> -> <<"\n">>
    [] f = <<"<", "p", ">", "a", "<", "/", "p", ">">> -> <<"a", "\n", "\n">>
    [] f = <<"<", "h", "r", ">">> -> <<"\n", "-", "-", "-", "\n", "\n">>
    [] OTHER -> f

\* C29: a rewrite applies only to the elements of its own tag name, so
\* the text of a <span> or the text around a <br> is never put between the
\* delimiters of <s> or <b>: a document made of fragments exports as the
\* Markdown of its fragments, one after the other
C29_RewritesMatchWholeTagNames ==
  Exported("raw") =>
    exported.md =
      Trim(CollapseBreaks(Concat([k \in 1..Len(exported.src.items) |->
                                    MarkdownOf(exported.src.items[k])])))


(***************************************************************************)
(* Properties of the deferred save.                                        *)
(***************************************************************************)
\* the timeout that fires in this step
Fired == timers \ timers'

\* the note of id was written after the save t was scheduled
WrittenSince(t, id) ==
  \E k \in 1..Len(notes) :
    notes[k].id = id /\ notes[k].updatedAt > t.due - DebounceMs

\* C22: a deferred save that was scheduled before an overlay commit wrote
\* the note does not replace the committed content in local storage
C22_CommitNotOverwritten ==
  [][last'.type = "timeout" =>
       \A t \in Fired :
         (WrittenSince(t, t.id) /\ storage = notes)
           => ContentOf(storage', t.id) = ContentOf(storage, t.id)]_vars


\* C23: a save is scheduled for the note that is active when the document
\* changes, and when its timeout fires it writes its content to the notes
\* of that id and leaves every other note as it was, whichever note is
\* active by then
C23_SaveGoesToEditedNote ==
  [][/\ last'.type = "update" =>
          \A t \in timers' \ timers :
            t.id = activeNoteId /\ t.content = GetHTML(doc')
     /\ last'.type = "timeout" =>
          \A t \in Fired :
            /\ Len(notes') = Len(notes)
            /\ \A k \in 1..Len(notes) : \E j \in 1..Len(notes') :
                 /\ notes'[j].id = notes[k].id
                 /\ notes'[j].content =
                      IF notes[k].id = t.id THEN t.content ELSE notes[k].content]_vars

\* a save has fired after the user went to another note: the edited note
\* holds the change and the active note does not
C23_Witness ==
  /\ last.type = "timeout"
  /\ \E id \in IdPool :
       /\ id # activeNoteId
       /\ edited[id].made
       /\ ~edited[activeNoteId].made
       /\ ContentOf(notes, id) = edited[id].content
       /\ ContentOf(notes, activeNoteId) # edited[id].content


(***************************************************************************)
(* Properties of the note collection.                                      *)
(***************************************************************************)
\* C24: once the notes are loaded the collection is never empty and the
\* active id is the id of one of its notes, whatever was created, selected
\* or deleted
C24_ActiveNoteExists ==
  ~isLoading =>
    /\ notes # <<>>
    /\ \E k \in 1..Len(notes) : notes[k].id = activeNoteId

\* the only note was deleted: a fresh empty note took its place, is active
\* and was written by the second saveNotes
C24_Witness ==
  /\ last.type = "delete"
  /\ saves = 2
  /\ Len(notes) = 1
  /\ notes[1].content = <<>>
  /\ activeNoteId = notes[1].id


\* C25: a deferred save that fires when no note has its id any more, the
\* note having been deleted, leaves the collection in memory as it is, so
\* the note does not come back and no other note changes; what it writes to
\* local storage is that collection
C25_SaveForDeletedNoteIsVoid ==
  [][last'.type = "timeout" =>
       \A t \in Fired :
         (\A k \in 1..Len(notes) : notes[k].id # t.id)
           => notes' = notes /\ storage' \in {notes, storage}]_vars

\* a save has fired that changed no note: every note was last written
\* before the clock reached the time of the save
C25_Witness ==
  /\ last.type = "timeout"
  /\ notes # <<>>
  /\ \A k \in 1..Len(notes) : notes[k].updatedAt < now


\* C26: when a create, an update or a delete has made its writes and none
\* of them failed, and the page has rendered, the collection in local
\* storage is the collection in memory, note for note and in the same order
C26_StoredEqualsMemory ==
  [][(last'.type \in {"create", "timeout", "delete"} /\ saves' >= 1 /\ failures' = 0)
       => storage' = notes']_vars


\* how often the image of the k-th file of the batch is in the document
Copies(k) ==
  Cardinality({j \in 1..Len(doc) : doc[j] = ImageNode(<<"d">> \o DecimalOf(k))})

\* C27: when the images dropped on the editor have been dealt with, the
\* image of each file that could be processed is in the document once
C27_DroppedImageInsertedOnce ==
  (BatchDone /\ batch.kind = "editorDrop") =>
    \A k \in 1..Len(batch.files) : batch.files[k] = "image" => Copies(k) = 1


\* C28: showing the panel, and searching in it, leaves the collection in
\* memory as it was, in its notes and in their order
C28_PanelLeavesCollection ==
  [][last'.type \in {"panel", "search"} => notes' = notes]_vars


=============================================================================
